---- MODULE Spec2Model ----
(***************************************************************************)
(* A model of bree's OCR matcher (src/bree/ocr.py): the reconstruction of  *)
(* the transcript and of the segment list from the OCR engine's table     *)
(* (OCRMatcher._process_file), and the substring-to-bounding-box lookup    *)
(* (OCRMatcher.find_bounding_boxes, OCRMatcher.find); and of the image     *)
(* layer above it (src/bree/image.py): the wait loops, the OCR matcher     *)
(* cache and get_child_region.                                             *)
(*                                                                         *)
(* Strings are sequences of one-character strings.  An optional number is  *)
(* None or the one-element sequence Some(n); a text column without a value *)
(* is NaN.                                                                 *)
(***************************************************************************)
EXTENDS Integers, Sequences, FiniteSets, TLC

VARIABLES
    table,                \* the rows pytesseract.image_to_data returns for the image
    line_break_str,       \* OCRMatcher.line_break_str
    paragraph_break_str,  \* OCRMatcher.paragraph_break_str
    constructed,          \* TRUE once __init__ has run _process_file
    parsed_text,          \* OCRMatcher._parsed_text
    ocr_segments,         \* OCRMatcher._ocr_segments
    produced,             \* history: the string appended to final_string for each segment
    call,                 \* the last query: [op, needle, start, end, regex]
    result,               \* what that query returned or raised
    earlier,              \* history: one query made before, with what it gave
    all_call,             \* the find_all / find_bounding_boxes_all call: [op, needle, regex]
    all_pc,               \* where it stands: "idle", "loop", "returned" or "raised"
    all_start,            \* the start index its next search is given
    all_found,            \* the results it has collected
    wait,                 \* the wait_until_* call in progress: [op, timeout2, scans_per_second]
    pc,                   \* where that call stands: "idle", "loop", "sleep" or "done"
    scan_count,           \* the loop's local scan_count
    wait_result,          \* the loop's local result, and what the call returned or raised
    events,               \* history: the scans and sleeps of the call, in order
    ocr_matchers,         \* BaseImage._ocr_matchers of every image object
    created,              \* history: the _create_ocr_matcher calls, [owner, key] each
    returned,             \* history: the _get_ocr_matcher calls, [obj, key, matcher] each
    child_call,           \* the last get_child_region call: [width, height, region]
    child_result,         \* what it returned or raised
    loc_call,             \* the last Region.contains call: [self, item, overlap]
    loc_result,           \* what it returned or raised
    keys_to_press,        \* a KeysToPress list
    keys_before,          \* history: the list as it was before the last operation
    keys_call,            \* the last operation on the list: [op, ...]
    keys_result,          \* what it returned or raised
    held,                 \* the hold context in use: [kind, keys]
    hold_pc,              \* where it stands: "out", "body", "done" or "failed"
    key_events,           \* history: the keyDown / keyUp / mouseDown / mouseUp calls
    screen_frame,         \* the number of the picture now on the screen
    live_matchers,        \* _ocr_matchers of a RegionInImage of the Screen
    live_answer           \* the last text query on a live image: [obj, key, captured, frame]

ocr_vars == <<table, line_break_str, paragraph_break_str, constructed, parsed_text,
              ocr_segments, produced, call, result>>

all_vars == <<all_call, all_pc, all_start, all_found>>

wait_vars == <<wait, pc, scan_count, wait_result, events>>

cache_vars == <<ocr_matchers, created, returned>>

child_vars == <<child_call, child_result>>

location_vars == <<loc_call, loc_result>>

keys_vars == <<keys_to_press, keys_before, keys_call, keys_result>>

hold_vars == <<held, hold_pc, key_events>>

live_vars == <<screen_frame, live_matchers, live_answer>>

rest_vars == <<location_vars, keys_vars, hold_vars, live_vars>>

image_vars == <<wait_vars, cache_vars, child_vars, rest_vars>>

vars == <<ocr_vars, earlier, all_vars, image_vars>>

None == <<>>

Some(n) == <<n>>

NaN == <<"NaN">>

NoCall == [op |-> "none"]

NoResult == [kind |-> "none"]

-----------------------------------------------------------------------------
(* Bounds of the model *)

MaxRows == 3          \* rows in the OCR table of a matcher that is only built
MaxLookupRows == 2    \* rows in the OCR table of a matcher that is queried
MaxNeedleLen == 3     \* characters in a literal needle
MaxPatternLen == 2    \* characters in a regular expression
MaxWindowIndex == 3   \* the largest start or end index given explicitly

-----------------------------------------------------------------------------
(* bree.location.Region as ocr.py uses it *)

Region(x, y, width, height) == [x |-> x, y |-> y, width |-> width, height |-> height]

left(r) == r.x

top(r) == r.y

right(r) == r.x + r.width

bottom(r) == r.y + r.height

from_points(l, t, r, b) == Region(l, t, r - l, b - t)

OCRMatch(index_start, index_end, region, confidence) ==
    [index_start |-> index_start, index_end |-> index_end,
     region |-> region, confidence |-> confidence]

-----------------------------------------------------------------------------
(* The OCR engine's table.  par_key stands for the (page_num, block_num,   *)
(* par_num) triple, in the triple's lexicographic order.                   *)

ParKeys == {1, 2}

LineNums == {1, 2}

Words == {<<>>, <<"a", "b">>}

Boxes == {[left |-> 0, top |-> 0, width |-> 2, height |-> 1, conf |-> 60],
          [left |-> 3, top |-> 1, width |-> 2, height |-> 2, conf |-> 90]}

WordRows ==
    {[par_key |-> p, line_num |-> l, left |-> b.left, top |-> b.top,
      width |-> b.width, height |-> b.height, conf |-> b.conf, text |-> w] :
        p \in ParKeys, l \in LineNums, b \in Boxes, w \in Words}

\* a structural row (a paragraph's own row): no text
StructuralRows ==
    {[par_key |-> 1, line_num |-> 0, left |-> 0, top |-> 0,
      width |-> 5, height |-> 3, conf |-> -1, text |-> NaN]}

OcrRows == WordRows \cup StructuralRows

\* separator strings a caller may configure; the first of each is __init__'s default
LineBreaks == {<<"\n">>, <<>>}

ParagraphBreaks == {<<"\n", "\n">>, <<"#">>}

dropna(df) == SelectSeq(df, LAMBDA row : row.text # NaN)

RECURSIVE SortedKeys(_)
SortedKeys(S) ==
    IF S = {} THEN <<>>
    ELSE LET m == CHOOSE k \in S : \A j \in S : k <= j
         IN <<m>> \o SortedKeys(S \ {m})

\* DataFrame.groupby: the groups in sorted key order, each group's rows in row order
groupby_paragraph(df) ==
    LET keys == SortedKeys({df[i].par_key : i \in 1..Len(df)})
    IN [g \in 1..Len(keys) |-> SelectSeq(df, LAMBDA row : row.par_key = keys[g])]

groupby_line(paragraph) ==
    LET keys == SortedKeys({paragraph[i].line_num : i \in 1..Len(paragraph)})
    IN [g \in 1..Len(keys) |->
           SelectSeq(paragraph, LAMBDA row : row.line_num = keys[g])]

-----------------------------------------------------------------------------
(* OCRMatcher._process_file *)

\* mutant: every separator is taken to be one character long
GlueSegmentOneChar(acc, sep, n, next_left) ==
    LET previous_region == acc.index_mapping[Len(acc.index_mapping)].region
    IN [final_string |-> acc.final_string \o sep,
        index_mapping |-> Append(acc.index_mapping,
            OCRMatch(Len(acc.final_string),
                     Len(acc.final_string) + 1,
                     from_points(right(previous_region), top(previous_region),
                                 next_left, bottom(previous_region)),
                     None)),
        produced |-> Append(acc.produced, sep)]

\* a synthetic segment for the separator sep, of length n, before a row at next_left
GlueSegment(acc, sep, n, next_left) ==
    LET previous_region == acc.index_mapping[Len(acc.index_mapping)].region
    IN [final_string |-> acc.final_string \o sep,
        index_mapping |-> Append(acc.index_mapping,
            OCRMatch(Len(acc.final_string),
                     Len(acc.final_string) + n,
                     from_points(right(previous_region), top(previous_region),
                                 next_left, bottom(previous_region)),
                     None)),
        produced |-> Append(acc.produced, sep)]

\* mutant: the token's range starts one character late
TokenSegmentOffByOne(acc, row) ==
    [final_string |-> acc.final_string \o row.text,
     index_mapping |-> Append(acc.index_mapping,
         OCRMatch(Len(acc.final_string) + 1,
                  Len(acc.final_string) + Len(row.text),
                  Region(row.left, row.top, row.width, row.height),
                  Some(row.conf))),
     produced |-> Append(acc.produced, row.text)]

TokenSegment(acc, row) ==
    [final_string |-> acc.final_string \o row.text,
     index_mapping |-> Append(acc.index_mapping,
         OCRMatch(Len(acc.final_string),
                  Len(acc.final_string) + Len(row.text),
                  Region(row.left, row.top, row.width, row.height),
                  Some(row.conf))),
     produced |-> Append(acc.produced, row.text)]

RECURSIVE WordLoop(_, _, _, _)
WordLoop(acc, line, k, new_line) ==
    IF k > Len(line) THEN acc
    ELSE LET row == line[k] IN
         IF row.text = <<>> THEN WordLoop(acc, line, k + 1, new_line)
         ELSE LET spaced == IF Len(acc.final_string) > 0 /\ ~new_line
                            THEN GlueSegment(acc, <<" ">>, 1, row.left)
                            ELSE acc
              IN WordLoop(TokenSegment(spaced, row), line, k + 1, FALSE)

\* mutant: the line break is not skipped before a paragraph's first line
RECURSIVE LineLoopNoFirstLineCheck(_, _, _, _, _)
LineLoopNoFirstLineCheck(acc, lines, k, new_paragraph, lb) ==
    IF k > Len(lines) THEN acc
    ELSE LET line == lines[k]
             broken == IF Len(acc.final_string) > 0
                       THEN GlueSegment(acc, lb, Len(lb), line[1].left)
                       ELSE acc
         IN LineLoopNoFirstLineCheck(WordLoop(broken, line, 1, TRUE), lines, k + 1,
                                     FALSE, lb)

RECURSIVE LineLoop(_, _, _, _, _)
LineLoop(acc, lines, k, new_paragraph, lb) ==
    IF k > Len(lines) THEN acc
    ELSE LET line == lines[k]
             broken == IF Len(acc.final_string) > 0 /\ ~new_paragraph
                       THEN GlueSegment(acc, lb, Len(lb), line[1].left)
                       ELSE acc
         IN LineLoop(WordLoop(broken, line, 1, TRUE), lines, k + 1, FALSE, lb)

RECURSIVE ParagraphLoop(_, _, _, _, _)
ParagraphLoop(acc, paragraphs, k, lb, pb) ==
    IF k > Len(paragraphs) THEN acc
    ELSE LET paragraph == paragraphs[k]
             broken == IF Len(acc.final_string) > 0
                       THEN GlueSegment(acc, pb, Len(pb), paragraph[1].left)
                       ELSE acc
         IN ParagraphLoop(
                LineLoop(broken, groupby_line(paragraph), 1, TRUE, lb),
                paragraphs, k + 1, lb, pb)

process_file(image_to_data, lb, pb) ==
    LET df == dropna(image_to_data)
    IN ParagraphLoop([final_string |-> <<>>, index_mapping |-> <<>>, produced |-> <<>>],
                     groupby_paragraph(df), 1, lb, pb)

-----------------------------------------------------------------------------
(* OCRMatcher.find_bounding_boxes and OCRMatcher.find *)

\* Python's s[start:end] for 0 <= start, 0 <= end
Slice(s, start, end) ==
    LET e == IF end > Len(s) THEN Len(s) ELSE end
    IN IF start >= e THEN <<>> ELSE SubSeq(s, start + 1, e)

\* one pattern character against one character of the text: in a regular
\* expression (no flags) "." is any character but a newline
CharMatches(p, c, regex) == IF regex /\ p = "." THEN c # "\n" ELSE p = c

MatchesAt(needle, text, i, regex) ==
    /\ i + Len(needle) <= Len(text)
    /\ \A k \in 1..Len(needle) : CharMatches(needle[k], text[i + k], regex)

\* str.find / re.search(...).span()[0]: the leftmost position, -1 when there is none
Search(needle, text, regex) ==
    LET hits == {i \in 0..Len(text) : MatchesAt(needle, text, i, regex)}
    IN IF hits = {} THEN -1 ELSE CHOOSE i \in hits : \A j \in hits : i <= j

Returned(index_start, index_end, tokens) ==
    [kind |-> "return", index_start |-> index_start, index_end |-> index_end,
     tokens |-> tokens]

Raised(exc) == [kind |-> "raise", exc |-> exc]

no_match_found == Returned(-1, -1, <<>>)

\* the while loop of lines 145-148; token is segments[end_token_i] (1-based here)
RECURSIVE EndTokenLoop(_, _, _, _)
EndTokenLoop(segments, end_token_i, index_end, tokens) ==
    IF index_end >= segments[end_token_i].index_end
    THEN IF end_token_i + 1 > Len(segments)
         THEN Raised("IndexError")
         ELSE EndTokenLoop(segments, end_token_i + 1, index_end,
                           Append(tokens, segments[end_token_i]))
    ELSE [kind |-> "tokens", tokens |-> tokens]

\* mutant: a match that ends exactly at its segment's end is taken to go beyond it
RECURSIVE TokenScanStrictEnd(_, _, _, _)
TokenScanStrictEnd(segments, i, index_start, index_end) ==
    IF i > Len(segments) THEN no_match_found
    ELSE LET token == segments[i] IN
         IF token.index_start <= index_start /\ index_start < token.index_end
         THEN IF index_end < token.index_end
              THEN Returned(index_start, index_end, <<token>>)
              ELSE LET run == EndTokenLoop(segments, i, index_end, <<>>)
                   IN IF run.kind = "raise" THEN run
                      ELSE Returned(index_start, index_end, run.tokens)
         ELSE TokenScanStrictEnd(segments, i + 1, index_start, index_end)

\* the for loop of lines 138-151
RECURSIVE TokenScan(_, _, _, _)
TokenScan(segments, i, index_start, index_end) ==
    IF i > Len(segments) THEN no_match_found
    ELSE LET token == segments[i] IN
         IF token.index_start <= index_start /\ index_start < token.index_end
         THEN IF index_end <= token.index_end
              THEN Returned(index_start, index_end, <<token>>)
              ELSE LET run == EndTokenLoop(segments, i, index_end, <<>>)
                   IN IF run.kind = "raise" THEN run
                      ELSE Returned(index_start, index_end, run.tokens)
         ELSE TokenScan(segments, i + 1, index_start, index_end)

find_bounding_boxes(text, segments, needle, start_arg, end_arg, regex) ==
    LET start == IF start_arg = None \/ start_arg = Some(0) THEN 0 ELSE start_arg[1]
        end == IF end_arg = None \/ end_arg = Some(0) THEN Len(text) ELSE end_arg[1]
        text_to_search == Slice(text, start, end)
        found == Search(needle, text_to_search, regex)
    IN IF found = -1 THEN no_match_found
       ELSE TokenScan(segments, 1, found + start, found + Len(needle) + start)

RECURSIVE SeqMin(_)
SeqMin(s) ==
    IF Len(s) = 1 THEN s[1]
    ELSE LET m == SeqMin(Tail(s)) IN IF s[1] <= m THEN s[1] ELSE m

RECURSIVE SeqMax(_)
SeqMax(s) ==
    IF Len(s) = 1 THEN s[1]
    ELSE LET m == SeqMax(Tail(s)) IN IF s[1] >= m THEN s[1] ELSE m

find(text, segments, needle, start_arg, end_arg, regex) ==
    LET found == find_bounding_boxes(text, segments, needle, start_arg, end_arg, regex)
    IN IF found.kind = "raise" THEN found
       ELSE LET bounding_boxes == found.tokens
                n == Len(bounding_boxes)
                confidences ==
                    SelectSeq([k \in 1..n |-> bounding_boxes[k].confidence],
                              LAMBDA c : c # None)
            IN IF n > 0
               THEN IF Len(confidences) = 0
                    THEN Raised("ValueError")
                    ELSE [kind |-> "match",
                          match |-> OCRMatch(
                              found.index_start,
                              found.index_end,
                              from_points(
                                  SeqMin([k \in 1..n |-> left(bounding_boxes[k].region)]),
                                  SeqMin([k \in 1..n |-> top(bounding_boxes[k].region)]),
                                  SeqMax([k \in 1..n |-> right(bounding_boxes[k].region)]),
                                  SeqMax([k \in 1..n |-> bottom(bounding_boxes[k].region)])),
                              SeqMin([k \in 1..Len(confidences) |-> confidences[k][1]]))]
               ELSE [kind |-> "null"]

-----------------------------------------------------------------------------
(* The queries a caller makes *)

\* the literal needles tried: the pieces of the transcript, and a text that is not in it
Literals(text) ==
    {Slice(text, i, j) : i \in 0..Len(text), j \in 0..Len(text)}
        \cup {<<"z">>}

\* the regular expressions tried: a piece of the transcript with "." for its
\* first character, and a pattern that matches nowhere
Patterns(text) ==
    {<<".">> \o Tail(n) : n \in Literals(text) \ {<<>>}} \cup {<<"z">>}

Needles(text, regex) ==
    IF regex THEN {n \in Patterns(text) : Len(n) <= MaxPatternLen}
    ELSE {n \in Literals(text) : Len(n) <= MaxNeedleLen}

Bounds(text) ==
    {None} \cup {Some(n) : n \in {m \in 0..Len(text) : m <= MaxWindowIndex}}

Windows(text) ==
    {w \in Bounds(text) \X Bounds(text) :
        w[1] # None /\ w[2] # None => w[1][1] <= w[2][1]}

-----------------------------------------------------------------------------
(* Properties of the construction (checked under SpecBuild) *)

IsGlue(segment) == segment.confidence = None

IsToken(segment) == segment.confidence # None

SegmentText(k) ==
    Slice(parsed_text, ocr_segments[k].index_start, ocr_segments[k].index_end)

RECURSIVE Concat(_)
Concat(seqs) == IF seqs = <<>> THEN <<>> ELSE seqs[1] \o Concat(Tail(seqs))

\* the sequences of seqs with the one element sep between each two of them
RECURSIVE Interleave(_, _)
Interleave(seqs, sep) ==
    IF Len(seqs) = 0 THEN <<>>
    ELSE IF Len(seqs) = 1 THEN seqs[1]
    ELSE seqs[1] \o <<sep>> \o Interleave(Tail(seqs), sep)

SurvivingRows == dropna(table)

AllTextNonEmpty == \A k \in 1..Len(SurvivingRows) : SurvivingRows[k].text # <<>>

\* the strings of the transcript in reading order: the words of each line with a
\* space between them, the lines of each paragraph with line_break between them,
\* the paragraphs with paragraph_break between them
LineStrings(line) == Interleave([k \in 1..Len(line) |-> <<line[k].text>>], <<" ">>)

ParagraphStrings(paragraph) ==
    LET lines == groupby_line(paragraph)
    IN Interleave([k \in 1..Len(lines) |-> LineStrings(lines[k])], line_break_str)

TranscriptStrings ==
    LET paragraphs == groupby_paragraph(SurvivingRows)
    IN Interleave([k \in 1..Len(paragraphs) |-> ParagraphStrings(paragraphs[k])],
                  paragraph_break_str)

\* the rows with text, in the order paragraphs, lines and words are visited
VisitedTexts ==
    LET paragraphs == groupby_paragraph(SurvivingRows)
        ParTexts(paragraph) ==
            LET lines == groupby_line(paragraph)
            IN Concat([k \in 1..Len(lines) |->
                   [j \in 1..Len(lines[k]) |-> lines[k][j].text]])
    IN SelectSeq(Concat([k \in 1..Len(paragraphs) |-> ParTexts(paragraphs[k])]),
                 LAMBDA t : t # <<>>)

TokenIndices == {k \in 1..Len(ocr_segments) : IsToken(ocr_segments[k])}

\* C5: after construction from a table with at least one token the segments tile the
\* transcript: the first starts at 0, each ends where the next starts, and the last
\* ends at len(text).
C5_ContiguousCoverage ==
    (constructed /\ Len(ocr_segments) > 0) =>
        /\ ocr_segments[1].index_start = 0
        /\ \A k \in 1..(Len(ocr_segments) - 1) :
              ocr_segments[k].index_end = ocr_segments[k + 1].index_start
        /\ ocr_segments[Len(ocr_segments)].index_end = Len(parsed_text)

C5_Witness ==
    /\ constructed
    /\ Len(ocr_segments) >= 5
    /\ \E k \in 1..Len(ocr_segments) : produced[k] = paragraph_break_str /\ Len(produced[k]) = 2

\* C6: text[index_start:index_end] of every segment is the string that produced it:
\* the row's own text for a token (non-null confidence), and " ", line_break or
\* paragraph_break, whichever was inserted, for a glue segment (null confidence).
C6_RoundTripOffsets ==
    constructed =>
        /\ Len(produced) = Len(ocr_segments)
        /\ \A k \in 1..Len(ocr_segments) :
              /\ SegmentText(k) = produced[k]
              /\ IsGlue(ocr_segments[k]) =>
                    produced[k] \in {<<" ">>, line_break_str, paragraph_break_str}
              /\ IsToken(ocr_segments[k]) =>
                    /\ Cardinality({j \in TokenIndices : j <= k}) <= Len(VisitedTexts)
                    /\ produced[k] = VisitedTexts[Cardinality({j \in TokenIndices : j <= k})]
        /\ Cardinality(TokenIndices) = Len(VisitedTexts)

C6_Witness ==
    /\ constructed
    /\ \E k \in 1..Len(ocr_segments) :
          IsGlue(ocr_segments[k]) /\ SegmentText(k) = <<"\n", "\n">>
    /\ \E k \in 1..Len(ocr_segments) :
          IsGlue(ocr_segments[k]) /\ SegmentText(k) = <<" ">>

\* C7: when every surviving row has text, the transcript is the words of each line
\* joined by a space, the lines of each paragraph joined by line_break and the
\* paragraphs joined by paragraph_break; the segments are exactly those words and
\* separators in that order, so nothing precedes the first token or follows the last.
C7_TranscriptStructure ==
    (constructed /\ AllTextNonEmpty) =>
        /\ produced = TranscriptStrings
        /\ parsed_text = Concat(TranscriptStrings)
        /\ \A k \in 1..Len(ocr_segments) : IsToken(ocr_segments[k]) <=> (k % 2 = 1)

C7_Witness ==
    /\ constructed
    /\ AllTextNonEmpty
    /\ Len(SurvivingRows) = 3
    /\ \E k \in 1..Len(produced) : IsGlue(ocr_segments[k]) /\ produced[k] = <<"\n">>
    /\ \E k \in 1..Len(produced) : IsGlue(ocr_segments[k]) /\ produced[k] = <<"#">>

\* C8: every glue segment has null confidence and a region from the right edge of
\* the preceding segment to the left edge of the token that follows it, with the
\* preceding segment's top and bottom; its width next.left - previous.right is kept
\* as it is, negative or not.
C8_GlueRegionRule ==
    constructed =>
        \A k \in 1..Len(ocr_segments) :
            IsGlue(ocr_segments[k]) =>
                /\ k > 1
                /\ k < Len(ocr_segments)
                /\ IsToken(ocr_segments[k + 1])
                /\ left(ocr_segments[k].region) = right(ocr_segments[k - 1].region)
                /\ right(ocr_segments[k].region) = left(ocr_segments[k + 1].region)
                /\ top(ocr_segments[k].region) = top(ocr_segments[k - 1].region)
                /\ bottom(ocr_segments[k].region) = bottom(ocr_segments[k - 1].region)
                /\ ocr_segments[k].region.width =
                      left(ocr_segments[k + 1].region) - right(ocr_segments[k - 1].region)

\* C12: the engine reporting confidences on its 0..100 scale, the confidence stored
\* with every token segment (and so every confidence find returns) is a fraction
\* between 0 and 1, the scale of find_text_all's threshold.
C12_ConfidenceScale ==
    constructed =>
        \A k \in 1..Len(ocr_segments) :
            IsToken(ocr_segments[k]) =>
                /\ 0 <= ocr_segments[k].confidence[1]
                /\ ocr_segments[k].confidence[1] <= 1

\* C13: every segment construction produces has index_start < index_end, under
\* every configuration of the line_break and paragraph_break strings.
C13_NonEmptySegments ==
    constructed =>
        \A k \in 1..Len(ocr_segments) :
            ocr_segments[k].index_start < ocr_segments[k].index_end

\* the rows that become tokens, in the engine's row order
TokenRows == SelectSeq(SurvivingRows, LAMBDA row : row.text # <<>>)

TokenSegments == SelectSeq(ocr_segments, IsToken)

\* C14: the token segments stand in the transcript in the order of the surviving
\* engine rows, whatever the numeric order of the rows' paragraph and line keys.
C14_ReadingOrder ==
    constructed =>
        /\ Len(TokenSegments) = Len(TokenRows)
        /\ \A k \in 1..Len(TokenSegments) :
              /\ TokenSegments[k].region =
                    Region(TokenRows[k].left, TokenRows[k].top,
                           TokenRows[k].width, TokenRows[k].height)
              /\ TokenSegments[k].confidence = Some(TokenRows[k].conf)
              /\ Slice(parsed_text, TokenSegments[k].index_start,
                       TokenSegments[k].index_end) = TokenRows[k].text

\* C29: for any OCR table, tables with rows of empty text included, the segment
\* list starts with a token segment, ends with a token segment and never has two
\* glue segments next to each other: a row of empty text adds neither a token
\* nor a glue segment.
C29_TokenGlueAlternation ==
    (constructed /\ ocr_segments # <<>>) =>
        /\ IsToken(ocr_segments[1])
        /\ IsToken(ocr_segments[Len(ocr_segments)])
        /\ \A k \in 1..(Len(ocr_segments) - 1) :
              ~(IsGlue(ocr_segments[k]) /\ IsGlue(ocr_segments[k + 1]))

-----------------------------------------------------------------------------
(* Properties of the lookups (checked under Spec) *)

\* the window the arguments of the last call ask for: text[start:end], an omitted
\* start being 0 and an omitted end len(text)
WindowStart == IF call.start = None THEN 0 ELSE call.start[1]

WindowEnd == IF call.end = None THEN Len(parsed_text) ELSE call.end[1]

\* the needle of the last call stands at [i, i + len(needle)) of the transcript,
\* wholly inside the window
OccursAt(i) ==
    /\ WindowStart <= i
    /\ i + Len(call.needle) <= WindowEnd
    /\ MatchesAt(call.needle, parsed_text, i, call.regex)

Occurs == \E i \in 0..Len(parsed_text) : OccursAt(i)

\* the first occurrence [MatchStart, MatchEnd) in the window
MatchStart == CHOOSE i \in 0..Len(parsed_text) : OccursAt(i) /\ \A j \in 0..(i - 1) : ~OccursAt(j)

MatchEnd == MatchStart + Len(call.needle)

Queried == call.op \in {"find_bounding_boxes", "find"}

\* the segment whose index range holds position i, if there is one
Holds(k, i) == ocr_segments[k].index_start <= i /\ i < ocr_segments[k].index_end

\* what find_bounding_boxes gives for the arguments of the last call
BoundingBoxes ==
    find_bounding_boxes(parsed_text, ocr_segments, call.needle, call.start, call.end,
                        call.regex)

\* C1: when the first occurrence [ms, me) of a literal needle lies inside the index
\* range of one segment, find_bounding_boxes returns (ms, me, [that segment]), the
\* segment being the whole, unmodified segment of the list.
C1_WholeTokenRule ==
    (call.op = "find_bounding_boxes" /\ ~call.regex /\ Occurs) =>
        \A k \in 1..Len(ocr_segments) :
            (Holds(k, MatchStart) /\ MatchEnd <= ocr_segments[k].index_end) =>
                result = Returned(MatchStart, MatchEnd, <<ocr_segments[k]>>)

C1_Witness ==
    /\ call.op = "find_bounding_boxes"
    /\ ~call.regex
    /\ call.needle = <<"b">>
    /\ Occurs
    /\ \E k \in 1..Len(ocr_segments) :
          /\ k > 1
          /\ IsToken(ocr_segments[k])
          /\ ocr_segments[k].index_start < MatchStart
          /\ MatchEnd = ocr_segments[k].index_end
          /\ result = Returned(MatchStart, MatchEnd, <<ocr_segments[k]>>)

\* C2: when the match [ms, me) of a literal needle starts in segment i and goes
\* beyond segment i's index_end, find_bounding_boxes returns the run of segments
\* i..j, where j is the first segment after i whose index_end is beyond me, segment
\* j included.  (Stated for a match that ends inside a segment, not at the end of
\* one, where "beyond me" reads one way only.)
C2_MultiSegmentRule ==
    (/\ call.op = "find_bounding_boxes"
     /\ ~call.regex
     /\ Occurs
     /\ \A m \in 1..Len(ocr_segments) : ocr_segments[m].index_end # MatchEnd) =>
        \A i \in 1..Len(ocr_segments) :
            (Holds(i, MatchStart) /\ MatchEnd > ocr_segments[i].index_end) =>
                \A j \in (i + 1)..Len(ocr_segments) :
                    (/\ ocr_segments[j].index_end > MatchEnd
                     /\ \A m \in (i + 1)..(j - 1) : ocr_segments[m].index_end <= MatchEnd)
                        => result = Returned(MatchStart, MatchEnd,
                                             SubSeq(ocr_segments, i, j))

Covers(region, segment) ==
    /\ left(region) <= left(segment.region) /\ left(segment.region) <= right(region)
    /\ left(region) <= right(segment.region) /\ right(segment.region) <= right(region)
    /\ top(region) <= top(segment.region) /\ top(segment.region) <= bottom(region)
    /\ top(region) <= bottom(segment.region) /\ bottom(segment.region) <= bottom(region)

\* C3: the region of the OCRMatch find returns covers the min_point and the
\* max_point of every segment find_bounding_boxes returns, glue segments of negative
\* width included: each segment's left, top, right and bottom lies within
\* [region.left, region.right] x [region.top, region.bottom].
C3_AggregateRegion ==
    (call.op = "find" /\ result.kind = "match") =>
        \A k \in 1..Len(BoundingBoxes.tokens) :
            Covers(result.match.region, BoundingBoxes.tokens[k])

\* the segments of the list that share a character with the match
Touched == {k \in 1..Len(ocr_segments) :
               ocr_segments[k].index_start < MatchEnd
                   /\ MatchStart < ocr_segments[k].index_end}

Confidences(tokens) ==
    {tokens[k].confidence[1] : k \in {m \in 1..Len(tokens) : IsToken(tokens[m])}}

\* C4: on a match, find returns an OCRMatch whose index_start and index_end are the
\* match's own (ms, me) and whose confidence is the least non-null confidence of the
\* contributing segments.  (Stated for a non-empty needle whose match touches a
\* token, where that least confidence exists.)
C4_AggregateIndicesAndConfidence ==
    (/\ call.op = "find"
     /\ Len(call.needle) > 0
     /\ Occurs
     /\ \E k \in Touched : IsToken(ocr_segments[k])) =>
        /\ result.kind = "match"
        /\ result.match.index_start = MatchStart
        /\ result.match.index_end = MatchEnd
        /\ BoundingBoxes.kind = "return"
        /\ \A c \in Confidences(BoundingBoxes.tokens) : result.match.confidence <= c
        /\ result.match.confidence \in Confidences(BoundingBoxes.tokens)

\* C9: with 0 <= start <= end <= len(text) given, a literal search looks at
\* text[start:end] only: a returned match has start <= ms, me <= end,
\* text[ms:me] = needle and ms leftmost in the window, and when the needle has no
\* occurrence wholly inside the window the result is (-1, -1, []).
C9_SearchWindow ==
    (/\ call.op = "find_bounding_boxes"
     /\ ~call.regex
     /\ call.start # None
     /\ call.end # None) =>
        /\ (result.kind = "return" /\ result # no_match_found) =>
              /\ OccursAt(result.index_start)
              /\ result.index_start = MatchStart
              /\ result.index_end = MatchEnd
        /\ ~Occurs => result = no_match_found

\* C10: for a needle, literal or regular expression, with no occurrence in the
\* search window, find_bounding_boxes returns (-1, -1, []) and find returns None;
\* neither raises.
C10_NoMatchSentinel ==
    (Queried /\ ~Occurs) =>
        /\ call.op = "find_bounding_boxes" => result = no_match_found
        /\ call.op = "find" => result = [kind |-> "null"]

\* the segments that share a character with the match, in list order
Intersecting ==
    SelectSeq(ocr_segments,
              LAMBDA seg : seg.index_start < MatchEnd /\ MatchStart < seg.index_end)

\* C25: for a literal needle with first occurrence [ms, me), find_bounding_boxes
\* returns exactly the segments whose index range [index_start, index_end)
\* intersects [ms, me), in list order, none missing and none extra: a last token
\* the match ends strictly inside is in the list, a segment that begins at me is
\* not.  (Stated for a non-empty needle searched in the whole transcript.)
C25_ExactCover ==
    (/\ call.op = "find_bounding_boxes"
     /\ ~call.regex
     /\ Len(call.needle) > 0
     /\ call.start = None
     /\ call.end = None
     /\ Occurs) =>
        result = Returned(MatchStart, MatchEnd, Intersecting)

\* C26: for a non-empty needle that occurs in the transcript, the list
\* find_bounding_boxes returns holds at least one token segment (non-null
\* confidence), so find has a least confidence to take and returns an OCRMatch.
C26_MatchTouchesToken ==
    (Queried /\ Len(call.needle) > 0 /\ Occurs) =>
        /\ call.op = "find_bounding_boxes" =>
              /\ result.kind = "return"
              /\ \E k \in 1..Len(result.tokens) : IsToken(result.tokens[k])
        /\ call.op = "find" => result.kind = "match"

\* C27: find_bounding_boxes returns normally for every needle that occurs in the
\* search window; the scan of the segments never reads past the end of the list,
\* also for a match over several segments that ends at the end of the transcript.
C27_ScanStaysInList ==
    (call.op = "find_bounding_boxes" /\ Occurs) => result.kind = "return"

-----------------------------------------------------------------------------

\* no find_all / find_bounding_boxes_all call in progress
AllIdle ==
    /\ all_call = NoCall
    /\ all_pc = "idle"
    /\ all_start = 0
    /\ all_found = <<>>

\* the objects of bree.image: an Image, a RegionInImage and the Screen
ImageObjects == {"image", "region_in_image"}

ScreenObjects == {"screen"}

\* the image layer (bree.image) at rest: BaseImage.__init__ has run for every object
ImageIdle ==
    /\ wait = NoCall
    /\ pc = "idle"
    /\ scan_count = 0
    /\ wait_result = NoResult
    /\ events = <<>>
    /\ ocr_matchers = [obj \in ImageObjects \cup ScreenObjects |-> <<>>]
    /\ created = <<>>
    /\ returned = <<>>
    /\ child_call = NoCall
    /\ child_result = NoResult
    /\ loc_call = NoCall
    /\ loc_result = NoResult
    /\ keys_to_press = <<>>
    /\ keys_before = <<>>
    /\ keys_call = NoCall
    /\ keys_result = NoResult
    /\ held = NoCall
    /\ hold_pc = "out"
    /\ key_events = <<>>
    /\ screen_frame = 0
    /\ live_matchers = <<>>
    /\ live_answer = NoCall

Init ==
    /\ table = <<>>
    /\ line_break_str = <<"\n">>
    /\ paragraph_break_str = <<"\n", "\n">>
    /\ constructed = FALSE
    /\ parsed_text = <<>>
    /\ ocr_segments = <<>>
    /\ produced = <<>>
    /\ call = NoCall
    /\ result = NoResult
    /\ earlier = NoCall
    /\ AllIdle
    /\ ImageIdle

\* the OCR engine reports one more row of the table of a matcher that will be queried
ImageToData ==
    /\ ~constructed
    /\ Len(table) < MaxLookupRows
    /\ \E row \in OcrRows : table' = Append(table, row)
    /\ UNCHANGED <<line_break_str, paragraph_break_str, constructed, parsed_text,
                   ocr_segments, produced, call, result>>
    /\ UNCHANGED <<earlier, all_vars, image_vars>>

\* the OCR engine reports one more row of the table of a matcher that is only built
ImageToDataBuild ==
    /\ ~constructed
    /\ Len(table) < MaxRows
    /\ \E row \in OcrRows : table' = Append(table, row)
    /\ UNCHANGED <<line_break_str, paragraph_break_str, constructed, parsed_text,
                   ocr_segments, produced, call, result>>
    /\ UNCHANGED <<earlier, all_vars, image_vars>>

\* OCRMatcher.__init__
Construct ==
    /\ ~constructed
    /\ LET built == process_file(table, line_break_str, paragraph_break_str)
       IN /\ parsed_text' = built.final_string
          /\ ocr_segments' = built.index_mapping
          /\ produced' = built.produced
    /\ constructed' = TRUE
    /\ UNCHANGED <<table, line_break_str, paragraph_break_str, call, result>>
    /\ UNCHANGED <<earlier, all_vars, image_vars>>

FindBoundingBoxes ==
    /\ constructed
    /\ call = NoCall
    /\ \E regex \in BOOLEAN : \E needle \in Needles(parsed_text, regex) :
         \E w \in Windows(parsed_text) :
            /\ call' = [op |-> "find_bounding_boxes", needle |-> needle,
                        start |-> w[1], end |-> w[2], regex |-> regex]
            /\ result' = find_bounding_boxes(parsed_text, ocr_segments, needle,
                                             w[1], w[2], regex)
    /\ UNCHANGED <<table, line_break_str, paragraph_break_str, constructed,
                   parsed_text, ocr_segments, produced>>
    /\ UNCHANGED <<earlier, all_vars, image_vars>>

\* mutant: find keeps the window it searched as the matcher's transcript
FindKeepsWindow ==
    /\ constructed
    /\ call = NoCall
    /\ \E regex \in BOOLEAN : \E needle \in Needles(parsed_text, regex) :
         \E w \in Windows(parsed_text) :
            /\ call' = [op |-> "find", needle |-> needle,
                        start |-> w[1], end |-> w[2], regex |-> regex]
            /\ result' = find(parsed_text, ocr_segments, needle, w[1], w[2], regex)
            /\ parsed_text' = Slice(parsed_text,
                                    IF w[1] = None THEN 0 ELSE w[1][1],
                                    IF w[2] = None THEN Len(parsed_text) ELSE w[2][1])
    /\ UNCHANGED <<table, line_break_str, paragraph_break_str, constructed,
                   ocr_segments, produced>>
    /\ UNCHANGED <<earlier, all_vars, image_vars>>

Find ==
    /\ constructed
    /\ call = NoCall
    /\ \E regex \in BOOLEAN : \E needle \in Needles(parsed_text, regex) :
         \E w \in Windows(parsed_text) :
            /\ call' = [op |-> "find", needle |-> needle,
                        start |-> w[1], end |-> w[2], regex |-> regex]
            /\ result' = find(parsed_text, ocr_segments, needle, w[1], w[2], regex)
    /\ UNCHANGED <<table, line_break_str, paragraph_break_str, constructed,
                   parsed_text, ocr_segments, produced>>
    /\ UNCHANGED <<earlier, all_vars, image_vars>>

\* the caller takes the result; the matcher is ready for the next query
Return ==
    /\ call # NoCall
    /\ call' = NoCall
    /\ result' = NoResult
    /\ UNCHANGED <<table, line_break_str, paragraph_break_str, constructed,
                   parsed_text, ocr_segments, produced>>
    /\ UNCHANGED <<earlier, all_vars, image_vars>>

Next == ImageToData \/ Construct \/ FindBoundingBoxes \/ Find \/ Return

Spec == Init /\ [][Next]_vars

\* construction alone, under every separator configuration
InitBuild ==
    /\ table = <<>>
    /\ line_break_str \in LineBreaks
    /\ paragraph_break_str \in ParagraphBreaks
    /\ constructed = FALSE
    /\ parsed_text = <<>>
    /\ ocr_segments = <<>>
    /\ produced = <<>>
    /\ call = NoCall
    /\ result = NoResult
    /\ earlier = NoCall
    /\ AllIdle
    /\ ImageIdle

NextBuild == ImageToDataBuild \/ Construct

SpecBuild == InitBuild /\ [][NextBuild]_vars

-----------------------------------------------------------------------------
(* Repeated queries on one matcher (checked under SpecRepeat) *)

\* the tables of the matchers queried repeatedly: two words on one line
\* (transcript "ab ab") and one word in each of two paragraphs
RepeatTables ==
    {<<[par_key |-> 1, line_num |-> 1, left |-> 0, top |-> 0, width |-> 2,
        height |-> 1, conf |-> 60, text |-> <<"a", "b">>],
       [par_key |-> p, line_num |-> 1, left |-> 3, top |-> 1, width |-> 2,
        height |-> 2, conf |-> 90, text |-> <<"a", "b">>]>> : p \in ParKeys}

InitRepeat ==
    /\ table \in RepeatTables
    /\ line_break_str = <<"\n">>
    /\ paragraph_break_str = <<"\n", "\n">>
    /\ constructed = FALSE
    /\ parsed_text = <<>>
    /\ ocr_segments = <<>>
    /\ produced = <<>>
    /\ call = NoCall
    /\ result = NoResult
    /\ earlier = NoCall
    /\ AllIdle
    /\ ImageIdle

\* history: the query just answered, one over the whole transcript, is kept to
\* compare a later one with
Remember ==
    /\ call # NoCall
    /\ call.start = None
    /\ call.end = None
    /\ earlier = NoCall
    /\ earlier' = [call |-> call, result |-> result, between |-> FALSE]
    /\ UNCHANGED <<ocr_vars, all_vars, image_vars>>

\* history: a query with other arguments was answered after the one kept
NoteOtherQuery ==
    /\ call # NoCall
    /\ earlier # NoCall
    /\ call # earlier.call
    /\ ~earlier.between
    /\ earlier' = [earlier EXCEPT !.between = TRUE]
    /\ UNCHANGED <<ocr_vars, all_vars, image_vars>>

NextRepeat ==
    Construct \/ FindBoundingBoxes \/ Find \/ Return \/ Remember \/ NoteOtherQuery

SpecRepeat == InitRepeat /\ [][NextRepeat]_vars

\* C11: queries leave the matcher's transcript and segment list as construction
\* made them, and a query with the arguments of an earlier one gives what the
\* earlier one gave (the same return value or the same exception), whatever was
\* asked in between.
C11_NoHiddenCursor ==
    constructed =>
        /\ parsed_text =
              process_file(table, line_break_str, paragraph_break_str).final_string
        /\ ocr_segments =
              process_file(table, line_break_str, paragraph_break_str).index_mapping
        /\ (earlier # NoCall /\ call # NoCall /\ call = earlier.call) =>
              result = earlier.result

C11_Witness ==
    /\ earlier # NoCall
    /\ earlier.between
    /\ call = earlier.call
    /\ call.op = "find"
    /\ result.kind = "match"
    /\ result = earlier.result

-----------------------------------------------------------------------------
(* OCRMatcher.find_all and OCRMatcher.find_bounding_boxes_all, as the          *)
(* specification describes them (checked under SpecFindAll): find or           *)
(* find_bounding_boxes is invoked again and again, each search starting at the *)
(* end of the match before, and every result is collected until one is null.   *)

MaxFound == 3         \* results a find_all call collects before the model stops it

\* the start index of a collected result
ResultStart(r) == IF r.kind = "match" THEN r.match.index_start ELSE r.index_start

ResultEnd(r) == IF r.kind = "match" THEN r.match.index_end ELSE r.index_end

FindAllCall ==
    /\ constructed
    /\ all_pc = "idle"
    /\ \E op \in {"find_all", "find_bounding_boxes_all"} : \E regex \in BOOLEAN :
         \E needle \in Needles(parsed_text, regex) :
            all_call' = [op |-> op, needle |-> needle, regex |-> regex]
    /\ all_pc' = "loop"
    /\ all_start' = 0
    /\ all_found' = <<>>
    /\ UNCHANGED <<ocr_vars, earlier, image_vars>>

\* one turn of the loop: a search from all_start
FindAllStep ==
    /\ all_pc = "loop"
    /\ Len(all_found) < MaxFound
    /\ LET r == IF all_call.op = "find_all"
                THEN find(parsed_text, ocr_segments, all_call.needle,
                          Some(all_start), None, all_call.regex)
                ELSE find_bounding_boxes(parsed_text, ocr_segments, all_call.needle,
                                         Some(all_start), None, all_call.regex)
       IN IF r.kind = "raise"
          THEN /\ all_pc' = "raised"
               /\ UNCHANGED <<all_start, all_found>>
          ELSE IF r.kind = "null" \/ r = no_match_found
          THEN /\ all_pc' = "returned"
               /\ UNCHANGED <<all_start, all_found>>
          ELSE /\ all_found' = Append(all_found, r)
               /\ all_start' = ResultEnd(r)
               /\ all_pc' = "loop"
    /\ UNCHANGED <<ocr_vars, earlier, all_call, image_vars>>

\* the caller takes the list (or the exception)
FindAllReturn ==
    /\ all_pc \in {"returned", "raised"}
    /\ all_call' = NoCall
    /\ all_pc' = "idle"
    /\ all_start' = 0
    /\ all_found' = <<>>
    /\ UNCHANGED <<ocr_vars, earlier, image_vars>>

NextFindAll == ImageToData \/ Construct \/ FindAllCall \/ FindAllStep \/ FindAllReturn

SpecFindAll == Init /\ [][NextFindAll]_vars

\* C15: the results find_all / find_bounding_boxes_all collects stand in strictly
\* increasing start-index order, none of them twice, and each search starts past
\* the start of the match before, so that the call comes to an end for every needle.
C15_FindAll ==
    all_pc \in {"loop", "returned"} =>
        /\ \A i \in 1..Len(all_found) : \A j \in 1..Len(all_found) :
              i < j => /\ ResultStart(all_found[i]) < ResultStart(all_found[j])
                       /\ all_found[i] # all_found[j]
        /\ (all_pc = "loop" /\ Len(all_found) > 0) =>
              all_start > ResultStart(all_found[Len(all_found)])

-----------------------------------------------------------------------------
(* BaseImage._wait_until_needle_appears and _wait_until_needle_vanishes        *)
(* (src/bree/image.py).  A timeout is counted in half seconds (timeout2 is     *)
(* twice the timeout), so that timeout * scans_per_second need not be whole;   *)
(* a sleep of 1 / scans_per_second is recorded by its scans_per_second.        *)

MaxTimeout2 == 4          \* the longest timeout, in half seconds
MaxScansPerSecond == 2    \* the largest scans_per_second

Timeouts2 == (0 - MaxTimeout2)..MaxTimeout2

ScanRates == 0..MaxScansPerSecond

\* what one scan (find_method) may give: nothing, or one of two lists of matches
ScanResults == {<<>>, <<"m1">>, <<"m2">>}

ScanEvent(r) == [e |-> "scan", result |-> r]

SleepEvent(rate) == [e |-> "sleep", scans_per_second |-> rate]

ListResult(v) == [kind |-> "list", value |-> v]

BoolResult(v) == [kind |-> "bool", value |-> v]

\* scan_count < timeout * scans_per_second
LoopCondition == 2 * scan_count < wait.timeout2 * wait.scans_per_second

\* entry of _wait_until_needle_appears: lines 332-333
WaitUntilAppears ==
    /\ pc = "idle"
    /\ \E t \in Timeouts2 : \E rate \in ScanRates :
          /\ wait' = [op |-> "appears", timeout2 |-> t, scans_per_second |-> rate]
          /\ scan_count' = IF t * rate > 0 THEN 0 ELSE -1
    /\ wait_result' = ListResult(<<>>)
    /\ events' = <<>>
    /\ pc' = "loop"
    /\ UNCHANGED <<ocr_vars, earlier, all_vars, rest_vars, cache_vars, child_vars>>

\* mutant: the loop does not stop at a scan that found the needle
AppearsScanNoBreak ==
    /\ wait.op = "appears"
    /\ pc = "loop"
    /\ LoopCondition
    /\ \E r \in ScanResults :
          /\ wait_result' = ListResult(r)
          /\ events' = Append(events, ScanEvent(r))
          /\ pc' = "sleep"
    /\ scan_count' = scan_count + 1
    /\ UNCHANGED <<ocr_vars, earlier, all_vars, rest_vars, cache_vars, child_vars, wait>>

\* lines 334-338: one scan; a result that is not empty ends the loop and is returned
AppearsScan ==
    /\ wait.op = "appears"
    /\ pc = "loop"
    /\ LoopCondition
    /\ \E r \in ScanResults :
          /\ wait_result' = ListResult(r)
          /\ events' = Append(events, ScanEvent(r))
          /\ pc' = IF Len(r) > 0 THEN "done" ELSE "sleep"
    /\ scan_count' = scan_count + 1
    /\ UNCHANGED <<ocr_vars, earlier, all_vars, rest_vars, cache_vars, child_vars, wait>>

\* lines 339-340: pyautogui.sleep(1 / scans_per_second)
AppearsSleep ==
    /\ wait.op = "appears"
    /\ pc = "sleep"
    /\ IF wait.scans_per_second = 0
       THEN /\ wait_result' = Raised("ZeroDivisionError")
            /\ pc' = "done"
            /\ UNCHANGED events
       ELSE /\ events' = Append(events, SleepEvent(wait.scans_per_second))
            /\ pc' = "loop"
            /\ UNCHANGED wait_result
    /\ UNCHANGED <<ocr_vars, earlier, all_vars, rest_vars, cache_vars, child_vars, wait, scan_count>>

\* lines 334, 342: the loop condition fails and result is returned
AppearsTimeout ==
    /\ wait.op = "appears"
    /\ pc = "loop"
    /\ ~LoopCondition
    /\ pc' = "done"
    /\ UNCHANGED <<ocr_vars, earlier, all_vars, rest_vars, cache_vars, child_vars, wait, scan_count,
                   wait_result, events>>

\* entry of _wait_until_needle_vanishes: line 431
WaitUntilVanishes ==
    /\ pc = "idle"
    /\ \E t \in Timeouts2 : \E rate \in ScanRates :
          /\ wait' = [op |-> "vanishes", timeout2 |-> t, scans_per_second |-> rate]
          /\ scan_count' = IF t * rate > 0 THEN 0 ELSE -1
    /\ wait_result' = NoResult
    /\ events' = <<>>
    /\ pc' = "loop"
    /\ UNCHANGED <<ocr_vars, earlier, all_vars, rest_vars, cache_vars, child_vars>>

\* lines 432-436: one scan; an empty result returns True
VanishesScan ==
    /\ wait.op = "vanishes"
    /\ pc = "loop"
    /\ LoopCondition
    /\ \E r \in ScanResults :
          /\ events' = Append(events, ScanEvent(r))
          /\ IF Len(r) = 0
             THEN wait_result' = BoolResult(TRUE) /\ pc' = "done"
             ELSE wait_result' = wait_result /\ pc' = "sleep"
    /\ scan_count' = scan_count + 1
    /\ UNCHANGED <<ocr_vars, earlier, all_vars, rest_vars, cache_vars, child_vars, wait>>

\* lines 437-438: pyautogui.sleep(1 / scans_per_second)
VanishesSleep ==
    /\ wait.op = "vanishes"
    /\ pc = "sleep"
    /\ IF wait.scans_per_second = 0
       THEN /\ wait_result' = Raised("ZeroDivisionError")
            /\ pc' = "done"
            /\ UNCHANGED events
       ELSE /\ events' = Append(events, SleepEvent(wait.scans_per_second))
            /\ pc' = "loop"
            /\ UNCHANGED wait_result
    /\ UNCHANGED <<ocr_vars, earlier, all_vars, rest_vars, cache_vars, child_vars, wait, scan_count>>

\* mutant: the loop gives up one scan early
VanishesTimeoutEarly ==
    /\ wait.op = "vanishes"
    /\ pc = "loop"
    /\ 2 * (scan_count + 1) >= wait.timeout2 * wait.scans_per_second
    /\ wait_result' = BoolResult(FALSE)
    /\ pc' = "done"
    /\ UNCHANGED <<ocr_vars, earlier, all_vars, rest_vars, cache_vars, child_vars, wait, scan_count,
                   events>>

\* lines 432, 440: the loop condition fails and False is returned
VanishesTimeout ==
    /\ wait.op = "vanishes"
    /\ pc = "loop"
    /\ ~LoopCondition
    /\ wait_result' = BoolResult(FALSE)
    /\ pc' = "done"
    /\ UNCHANGED <<ocr_vars, earlier, all_vars, rest_vars, cache_vars, child_vars, wait, scan_count,
                   events>>

\* the caller takes what the wait call returned or raised
WaitReturn ==
    /\ pc = "done"
    /\ wait' = NoCall
    /\ pc' = "idle"
    /\ scan_count' = 0
    /\ wait_result' = NoResult
    /\ events' = <<>>
    /\ UNCHANGED <<ocr_vars, earlier, all_vars, rest_vars, cache_vars, child_vars>>

NextWait ==
    \/ WaitUntilAppears \/ AppearsScan \/ AppearsSleep \/ AppearsTimeout
    \/ WaitUntilVanishes \/ VanishesScan \/ VanishesSleep \/ VanishesTimeout
    \/ WaitReturn

SpecWait == Init /\ [][NextWait]_vars

-----------------------------------------------------------------------------
(* Properties of the wait loops (checked under SpecWait) *)

Scans == SelectSeq(events, LAMBDA ev : ev.e = "scan")

Sleeps == SelectSeq(events, LAMBDA ev : ev.e = "sleep")

\* twice timeout * scans_per_second
Product2 == wait.timeout2 * wait.scans_per_second

\* timeout * scans_per_second is a whole number N > 0
WholeScans == Product2 > 0 /\ Product2 % 2 = 0

\* a scan, then a sleep of 1 / scans_per_second, then a scan, and so on
ScanSleepOrder ==
    \A i \in 1..Len(events) :
        IF i % 2 = 1 THEN events[i].e = "scan"
        ELSE events[i] = SleepEvent(wait.scans_per_second)

\* C16: a wait_until_* call with timeout * scans_per_second <= 0 has made at least
\* one scan when it returns.
C16_AtLeastOneScan ==
    (pc = "done" /\ Product2 <= 0) => Len(Scans) >= 1

\* C17: wait-until-appears with N = timeout * scans_per_second a whole number > 0
\* scans at most N times; it sleeps once, for 1 / scans_per_second, after every
\* empty scan; the first scan that is not empty is the last thing it does and its
\* result is returned; and when every scan is empty it returns the empty list
\* after exactly N scans and N sleeps.
C17_AppearsProtocol ==
    (wait.op = "appears" /\ WholeScans) =>
        /\ 2 * Len(Scans) <= Product2
        /\ ScanSleepOrder
        /\ \A i \in 1..Len(events) :
              (events[i].e = "scan" /\ events[i].result # <<>>) =>
                  /\ i = Len(events)
                  /\ pc = "done"
                  /\ wait_result = ListResult(events[i].result)
        /\ pc = "loop" => Len(events) % 2 = 0
        /\ pc = "sleep" => events[Len(events)] = ScanEvent(<<>>)
        /\ (/\ pc = "done"
            /\ \A i \in 1..Len(Scans) : Scans[i].result = <<>>) =>
              /\ 2 * Len(Scans) = Product2
              /\ Len(Sleeps) = Len(Scans)
              /\ wait_result = ListResult(<<>>)

C17_Witness ==
    /\ wait.op = "appears"
    /\ WholeScans
    /\ pc = "done"
    /\ events = <<ScanEvent(<<>>), SleepEvent(2), ScanEvent(<<>>), SleepEvent(2),
                  ScanEvent(<<"m2">>)>>
    /\ wait_result = ListResult(<<"m2">>)

\* C18: wait-until-vanishes with N = timeout * scans_per_second a whole number > 0
\* returns True right after the first empty scan, sleeps once after every scan
\* that is not empty, and returns False after exactly N scans when every scan
\* found the needle: it returns True exactly when one of the first N scans was
\* empty.
C18_VanishesProtocol ==
    (wait.op = "vanishes" /\ WholeScans) =>
        /\ 2 * Len(Scans) <= Product2
        /\ ScanSleepOrder
        /\ \A i \in 1..Len(events) :
              events[i] = ScanEvent(<<>>) =>
                  /\ i = Len(events)
                  /\ pc = "done"
                  /\ wait_result = BoolResult(TRUE)
        /\ pc = "loop" => Len(events) % 2 = 0
        /\ pc = "sleep" =>
              (events[Len(events)].e = "scan" /\ events[Len(events)].result # <<>>)
        /\ pc = "done" =>
              /\ wait_result \in {BoolResult(TRUE), BoolResult(FALSE)}
              /\ wait_result = BoolResult(TRUE) <=>
                    \E i \in 1..Len(Scans) : Scans[i].result = <<>>
              /\ wait_result = BoolResult(FALSE) =>
                    /\ 2 * Len(Scans) = Product2
                    /\ Len(Sleeps) = Len(Scans)

C18_Witness ==
    /\ wait.op = "vanishes"
    /\ WholeScans
    /\ pc = "done"
    /\ events = <<ScanEvent(<<"m1">>), SleepEvent(1), ScanEvent(<<>>)>>
    /\ wait.timeout2 = 4
    /\ wait_result = BoolResult(TRUE)

-----------------------------------------------------------------------------
(* The OCR matcher cache: BaseImage._get_ocr_matcher and Screen's override     *)
(* (checked under SpecCache).  A matcher is known by the number of the         *)
(* _create_ocr_matcher call that made it.                                      *)

MaxCalls == 3         \* _get_ocr_matcher calls made in all

Languages == {"None", "deu"}

LineBreakArgs == {"\n", "\r\n"}

ParagraphBreakArgs == {"\n\n"}

\* mutant: the cache is keyed by the language alone
MatcherKeyLanguageOnly(language, line_break, paragraph_break) == <<language>>

\* the dictionary key (language, line_break, paragraph_break)
MatcherKey(language, line_break, paragraph_break) ==
    <<language, line_break, paragraph_break>>

\* dict.get(key): the matcher stored under key, None when there is none
DictGet(dict, key) ==
    IF \E i \in 1..Len(dict) : dict[i].key = key
    THEN Some((CHOOSE i \in 1..Len(dict) : dict[i].key = key))
    ELSE None

\* BaseImage._get_ocr_matcher, lines 135-142, of an Image or a RegionInImage
GetOcrMatcher ==
    /\ Len(returned) < MaxCalls
    /\ \E obj \in ImageObjects : \E language \in Languages :
         \E line_break \in LineBreakArgs : \E paragraph_break \in ParagraphBreakArgs :
            LET key == MatcherKey(language, line_break, paragraph_break)
                args == <<language, line_break, paragraph_break>>
                matcher == DictGet(ocr_matchers[obj], key)
            IN IF matcher = None
               THEN /\ created' = Append(created, [owner |-> obj, key |-> args])
                    /\ ocr_matchers' =
                          [ocr_matchers EXCEPT ![obj] =
                              Append(@, [key |-> key, matcher |-> Len(created) + 1])]
                    /\ returned' = Append(returned,
                          [obj |-> obj, key |-> args, matcher |-> Len(created) + 1])
               ELSE /\ returned' = Append(returned,
                          [obj |-> obj, key |-> args,
                           matcher |-> ocr_matchers[obj][matcher[1]].matcher])
                    /\ UNCHANGED <<created, ocr_matchers>>
    /\ UNCHANGED <<ocr_vars, earlier, all_vars, rest_vars, wait_vars, child_vars>>

\* Screen._get_ocr_matcher, lines 1050-1051
ScreenGetOcrMatcher ==
    /\ Len(returned) < MaxCalls
    /\ \E obj \in ScreenObjects : \E language \in Languages :
         \E line_break \in LineBreakArgs : \E paragraph_break \in ParagraphBreakArgs :
            LET args == <<language, line_break, paragraph_break>>
            IN /\ created' = Append(created, [owner |-> obj, key |-> args])
               /\ returned' = Append(returned,
                     [obj |-> obj, key |-> args, matcher |-> Len(created) + 1])
    /\ UNCHANGED <<ocr_vars, earlier, all_vars, rest_vars, wait_vars, child_vars, ocr_matchers>>

NextCache == GetOcrMatcher \/ ScreenGetOcrMatcher

SpecCache == Init /\ [][NextCache]_vars

\* the _create_ocr_matcher calls of obj for the arguments key
CreatedFor(obj, key) ==
    {m \in 1..Len(created) : created[m] = [owner |-> obj, key |-> key]}

\* the _get_ocr_matcher calls of obj for the arguments key
ReturnedFor(obj, key) ==
    {i \in 1..Len(returned) : returned[i].obj = obj /\ returned[i].key = key}

\* C19: after any sequence of _get_ocr_matcher calls, an Image or RegionInImage
\* has had the factory invoked exactly once for every (language, line_break,
\* paragraph_break) asked of it; calls with equal arguments returned the same
\* matcher, calls with different arguments or on different objects different
\* matchers, each created by that object for those arguments; and the Screen has
\* created a new matcher at every call.
C19_MatcherCache ==
    /\ \A i \in 1..Len(returned) :
          /\ returned[i].matcher \in 1..Len(created)
          /\ created[returned[i].matcher] =
                [owner |-> returned[i].obj, key |-> returned[i].key]
    /\ \A i \in 1..Len(returned) :
          returned[i].obj \in ImageObjects =>
              /\ Cardinality(CreatedFor(returned[i].obj, returned[i].key)) = 1
              /\ \A j \in 1..Len(returned) :
                    (returned[j].obj = returned[i].obj /\ returned[j].key = returned[i].key)
                        <=> returned[j].matcher = returned[i].matcher
    /\ \A m \in 1..Len(created) :
          ReturnedFor(created[m].owner, created[m].key) # {}
    /\ \A obj \in ScreenObjects :
          /\ ocr_matchers[obj] = <<>>
          /\ \A i \in 1..Len(returned) : \A j \in 1..Len(returned) :
                (returned[i].obj = obj /\ i # j) =>
                    returned[i].matcher # returned[j].matcher

C19_Witness ==
    /\ Len(returned) = 3
    /\ returned[1].obj = "image"
    /\ returned[2].obj = "image"
    /\ returned[3] = returned[1]
    /\ returned[2].key # returned[1].key
    /\ returned[2].matcher # returned[1].matcher
    /\ Len(created) = 2

-----------------------------------------------------------------------------
(* BaseImage.get_child_region (checked under SpecChild) *)

MaxSide == 2          \* the largest width or height of an image

Sides == 1..MaxSide

\* the regions asked for: from one pixel outside the image's top left corner, up
\* to one pixel larger than the largest image
ChildRegions ==
    {Region(x, y, w, h) : x \in (0 - 1)..MaxSide, y \in (0 - 1)..MaxSide,
                          w \in 0..(MaxSide + 1), h \in 0..(MaxSide + 1)}

RegionInImage(parent_image, region) ==
    [kind |-> "RegionInImage", parent_image |-> parent_image, region |-> region]

\* lines 111-128; self is the image, known by its width and height
get_child_region(self, region) ==
    IF left(region) < 0 THEN Raised("OutOfBoundsError")
    ELSE IF top(region) < 0 THEN Raised("OutOfBoundsError")
    ELSE IF right(region) >= self.width THEN Raised("OutOfBoundsError")
    ELSE IF bottom(region) >= self.height THEN Raised("OutOfBoundsError")
    ELSE RegionInImage(self, region)

GetChildRegion ==
    /\ child_call = NoCall
    /\ \E width \in Sides : \E height \in Sides : \E region \in ChildRegions :
          LET self == [width |-> width, height |-> height]
          IN /\ child_call' = [self |-> self, region |-> region]
             /\ child_result' = get_child_region(self, region)
    /\ UNCHANGED <<ocr_vars, earlier, all_vars, rest_vars, wait_vars, cache_vars>>

\* the caller takes the child region (or the exception)
ChildReturn ==
    /\ child_call # NoCall
    /\ child_call' = NoCall
    /\ child_result' = NoResult
    /\ UNCHANGED <<ocr_vars, earlier, all_vars, rest_vars, wait_vars, cache_vars>>

NextChild == GetChildRegion \/ ChildReturn

SpecChild == Init /\ [][NextChild]_vars

\* the region of the last call lies within the image
WithinImage ==
    /\ 0 <= left(child_call.region)
    /\ 0 <= top(child_call.region)
    /\ right(child_call.region) <= child_call.self.width
    /\ bottom(child_call.region) <= child_call.self.height

\* C20: get_child_region(region) returns the RegionInImage of that region with
\* this image as parent when the region lies within the image, its right and
\* bottom edges on the image's edges included (the image's own region is one
\* such), and raises OutOfBoundsError exactly when left < 0, top < 0, right is
\* beyond the width or bottom beyond the height.
C20_ChildRegionBounds ==
    child_call # NoCall =>
        /\ WithinImage =>
              child_result = RegionInImage(child_call.self, child_call.region)
        /\ ~WithinImage => child_result = Raised("OutOfBoundsError")

-----------------------------------------------------------------------------
\* Region.contains (location.py)

MaxCoord == 2         \* the largest x, y, width or height of a region or point

Coords == 0..MaxCoord

Point(x, y) == [x |-> x, y |-> y]

Points == {Point(x, y) : x \in Coords, y \in Coords}

\* regions of non-negative width and height
Regions == {Region(x, y, w, h) : x \in Coords, y \in Coords, w \in Coords, h \in Coords}

\* an item that is neither a Point nor a Region
OtherItems == {[tuple |-> <<0, 0>>]}

Overlaps == {"all", "any", "ALL", "Any", "some"}

IsPoint(item) == DOMAIN item = {"x", "y"}

IsRegion(item) == DOMAIN item = {"x", "y", "width", "height"}

min_point(r) == Point(r.x, r.y)

max_point(r) == Point(right(r), bottom(r))

\* str.lower on the values passed
lower(overlap) ==
    IF overlap = "ALL" THEN "all"
    ELSE IF overlap = "Any" THEN "any"
    ELSE overlap

Bool(b) == [kind |-> "bool", value |-> b]

\* line 80
point_in(self, item) ==
    (left(self) <= item.x /\ item.x <= right(self))
        /\ (top(self) <= item.y /\ item.y <= bottom(self))

\* "any" with the test of the container's bottom against the item's top strict
contains_strict_bottom(self, item, overlap) ==
    IF IsPoint(item) THEN Bool(point_in(self, item))
    ELSE IF IsRegion(item) THEN
        IF lower(overlap) = "all"
        THEN Bool(point_in(self, min_point(item)) /\ point_in(self, max_point(item)))
        ELSE IF lower(overlap) = "any"
        THEN Bool(bottom(self) > top(item) /\ top(self) <= bottom(item)
                    /\ right(self) >= left(item) /\ left(self) <= right(item))
        ELSE Raised("ValueError")
    ELSE Raised("NotImplementedError")

\* lines 78-95
contains(self, item, overlap) ==
    IF IsPoint(item) THEN Bool(point_in(self, item))
    ELSE IF IsRegion(item) THEN
        IF lower(overlap) = "all"
        THEN Bool(point_in(self, min_point(item)) /\ point_in(self, max_point(item)))
        ELSE IF lower(overlap) = "any"
        THEN Bool(bottom(self) >= top(item) /\ top(self) <= bottom(item)
                    /\ right(self) >= left(item) /\ left(self) <= right(item))
        ELSE Raised("ValueError")
    ELSE Raised("NotImplementedError")

Contains ==
    /\ loc_call = NoCall
    /\ \E self \in Regions : \E item \in Points \cup Regions \cup OtherItems :
       \E overlap \in Overlaps :
          /\ loc_call' = [op |-> "contains", self |-> self, item |-> item,
                          overlap |-> overlap]
          /\ loc_result' = contains(self, item, overlap)
    /\ UNCHANGED <<ocr_vars, earlier, all_vars, wait_vars, cache_vars, child_vars,
                   keys_vars, hold_vars, live_vars>>

\* the caller takes the answer (or the exception)
ContainsReturn ==
    /\ loc_call # NoCall
    /\ loc_call' = NoCall
    /\ loc_result' = NoResult
    /\ UNCHANGED <<ocr_vars, earlier, all_vars, wait_vars, cache_vars, child_vars,
                   keys_vars, hold_vars, live_vars>>

NextLocation == Contains \/ ContainsReturn

SpecLocation == Init /\ [][NextLocation]_vars

\* the points of the plane a closed box can cover here
Plane == {Point(x, y) : x \in 0..(2 * MaxCoord), y \in 0..(2 * MaxCoord)}

\* the points of the closed box of a region
Box(r) == {p \in Plane : r.x <= p.x /\ p.x <= r.x + r.width
                          /\ r.y <= p.y /\ p.y <= r.y + r.height}

RegionCall == loc_call # NoCall /\ IsRegion(loc_call.item)

\* the item touches the container at one corner only: its bottom right corner
\* is the container's top left corner
CornerTouch ==
    /\ right(loc_call.item) = left(loc_call.self)
    /\ bottom(loc_call.item) = top(loc_call.self)
    /\ loc_call.item.width > 0
    /\ loc_call.item.height > 0

\* C21: for regions of non-negative width and height, a Point is contained
\* exactly when left <= x <= right and top <= y <= bottom; under "all" a region
\* is contained exactly when its whole closed box lies in the container's;
\* under "any" exactly when the two closed boxes share a point; so "all"
\* implies "any", and an item touching the container at a corner only is
\* contained under "any" and not under "all".
C21_ContainsModes ==
    /\ (loc_call # NoCall /\ IsPoint(loc_call.item)) =>
          loc_result = Bool(loc_call.item \in Box(loc_call.self))
    /\ (RegionCall /\ lower(loc_call.overlap) = "all") =>
          loc_result = Bool(Box(loc_call.item) \subseteq Box(loc_call.self))
    /\ (RegionCall /\ lower(loc_call.overlap) = "any") =>
          loc_result = Bool(Box(loc_call.item) \cap Box(loc_call.self) # {})
    /\ RegionCall =>
          (contains(loc_call.self, loc_call.item, "all") = Bool(TRUE)
              => contains(loc_call.self, loc_call.item, "any") = Bool(TRUE))
    /\ (RegionCall /\ CornerTouch) =>
          /\ contains(loc_call.self, loc_call.item, "any") = Bool(TRUE)
          /\ contains(loc_call.self, loc_call.item, "all") = Bool(FALSE)

\* a corner-touching item was asked for under "any" and found contained
C21_Witness ==
    /\ RegionCall
    /\ CornerTouch
    /\ lower(loc_call.overlap) = "any"
    /\ loc_result = Bool(TRUE)

\* C22: a call with an overlap that is neither "all" nor "any" in any case
\* raises ValueError and returns no boolean, for a Point and for a Region.
C22_InvalidOverlap ==
    (/\ loc_call # NoCall
     /\ IsPoint(loc_call.item) \/ IsRegion(loc_call.item)
     /\ lower(loc_call.overlap) \notin {"all", "any"})
        => loc_result = Raised("ValueError")

-----------------------------------------------------------------------------
\* KeysToPress (interaction.py): a list that stores str and SpecialKey only

MaxKeys == 3          \* the longest KeysToPress list
MaxItems == 2         \* the longest iterable handed to an operation

\* the values handed over as items: a str, a SpecialKey and an int
KeyItems ==
    {[type |-> "str", value |-> "a"],
     [type |-> "SpecialKey", value |-> "alt"],
     [type |-> "int", value |-> "5"]}

\* line 92: isinstance(item, (str, SpecialKey)); otherwise TypeError
validate_value(item) == item.type \in {"str", "SpecialKey"}

SeqsUpTo(S, n) == UNION {[1..k -> S] : k \in 0..n}

ValidItems == {item \in KeyItems : validate_value(item)}

\* the iterables handed over: plain lists of any items, KeysToPress objects
\* (which hold valid items only), and a value that cannot be iterated
Iterables ==
    {[cls |-> "list", items |-> xs] : xs \in SeqsUpTo(KeyItems, MaxItems)}
        \cup {[cls |-> "KeysToPress", items |-> xs] : xs \in SeqsUpTo(ValidItems, MaxItems)}
        \cup {[cls |-> "int", items |-> <<>>]}

\* the outcome of an operation: the list afterwards and what the call gave
Outcome(self, res) == [self |-> self, result |-> res]

ReturnedNone == [kind |-> "return"]

ReturnedKeys(items) == [kind |-> "KeysToPress", items |-> items]

NotImplemented == [kind |-> "NotImplemented"]

AllValid(items) == \A i \in 1..Len(items) : validate_value(items[i])

\* lines 98-99
append(self, item) ==
    IF validate_value(item) THEN Outcome(Append(self, item), ReturnedNone)
    ELSE Outcome(self, Raised("TypeError"))

\* extend that validates and appends the items one after the other
extend_item_by_item(self, items) ==
    IF items.cls = "KeysToPress" THEN Outcome(self \o items.items, ReturnedNone)
    ELSE IF AllValid(items.items) THEN Outcome(self \o items.items, ReturnedNone)
    ELSE LET bad == CHOOSE i \in 1..Len(items.items) :
                        /\ ~validate_value(items.items[i])
                        /\ \A j \in 1..(i - 1) : validate_value(items.items[j])
         IN Outcome(self \o SubSeq(items.items, 1, bad - 1), Raised("TypeError"))

\* lines 101-106
extend(self, items) ==
    IF items.cls = "KeysToPress" THEN Outcome(self \o items.items, ReturnedNone)
    ELSE IF AllValid(items.items) THEN Outcome(self \o items.items, ReturnedNone)
    ELSE Outcome(self, Raised("TypeError"))

\* lines 88-90: a new list, extended by the items; nothing is built on TypeError
init(items) ==
    LET o == extend(<<>>, items)
    IN IF o.result = ReturnedNone THEN ReturnedKeys(o.self) ELSE o.result

\* a Python list index: negative indices count from the end
FromEnd(self, index) == IF index < 0 THEN index + Len(self) ELSE index

\* lines 114-115, list.__setitem__ with an integer index (0-based)
setitem(self, index, item) ==
    IF ~validate_value(item) THEN Outcome(self, Raised("TypeError"))
    ELSE IF FromEnd(self, index) < 0 \/ FromEnd(self, index) >= Len(self)
    THEN Outcome(self, Raised("IndexError"))
    ELSE Outcome([self EXCEPT ![FromEnd(self, index) + 1] = item], ReturnedNone)

\* list.insert clamps the index to the list
Clamp(self, index) ==
    IF FromEnd(self, index) < 0 THEN 0
    ELSE IF FromEnd(self, index) > Len(self) THEN Len(self)
    ELSE FromEnd(self, index)

\* lines 117-118
insert(self, index, item) ==
    IF ~validate_value(item) THEN Outcome(self, Raised("TypeError"))
    ELSE Outcome(SubSeq(self, 1, Clamp(self, index)) \o <<item>>
                    \o SubSeq(self, Clamp(self, index) + 1, Len(self)),
                 ReturnedNone)

\* lines 120-128
add(self, other) ==
    IF other.cls = "int" THEN Outcome(self, NotImplemented)
    ELSE LET retval == extend(self, other)
         IN IF retval.result = ReturnedNone
            THEN Outcome(self, ReturnedKeys(retval.self))
            ELSE Outcome(self, retval.result)

\* lines 140-147
iadd(self, other) ==
    IF other.cls = "int" THEN Outcome(self, NotImplemented)
    ELSE LET o == extend(self, other)
         IN IF o.result = ReturnedNone
            THEN Outcome(o.self, ReturnedKeys(o.self))
            ELSE o

Indices == (0 - 1)..MaxKeys

\* an operation on the list acted: the list, its outcome and the history
KeysDid(c, o) ==
    /\ Len(o.self) <= MaxKeys
    /\ keys_call' = c
    /\ keys_before' = keys_to_press
    /\ keys_to_press' = o.self
    /\ keys_result' = o.result
    /\ UNCHANGED <<ocr_vars, earlier, all_vars, wait_vars, cache_vars, child_vars,
                   location_vars, hold_vars, live_vars>>

\* keys = KeysToPress(items): the name is bound only when the constructor returns
KeysConstruct ==
    /\ keys_call = NoCall
    /\ \E items \in Iterables \ {[cls |-> "int", items |-> <<>>]} :
          KeysDid([op |-> "init", given |-> items.items],
                  Outcome(IF init(items).kind = "KeysToPress"
                          THEN init(items).items ELSE keys_to_press,
                          init(items)))

KeysAppend ==
    /\ keys_call = NoCall
    /\ \E item \in KeyItems :
          KeysDid([op |-> "append", given |-> <<item>>], append(keys_to_press, item))

KeysExtend ==
    /\ keys_call = NoCall
    /\ \E items \in Iterables \ {[cls |-> "int", items |-> <<>>]} :
          KeysDid([op |-> "extend", given |-> items.items],
                  extend(keys_to_press, items))

KeysSetItem ==
    /\ keys_call = NoCall
    /\ \E index \in Indices : \E item \in KeyItems :
          KeysDid([op |-> "setitem", given |-> <<item>>],
                  setitem(keys_to_press, index, item))

KeysInsert ==
    /\ keys_call = NoCall
    /\ \E index \in Indices : \E item \in KeyItems :
          KeysDid([op |-> "insert", given |-> <<item>>],
                  insert(keys_to_press, index, item))

KeysAdd ==
    /\ keys_call = NoCall
    /\ \E other \in Iterables :
          /\ Len(keys_to_press) + Len(other.items) <= MaxKeys
          /\ KeysDid([op |-> "add", given |-> other.items], add(keys_to_press, other))

KeysIAdd ==
    /\ keys_call = NoCall
    /\ \E other \in Iterables :
          KeysDid([op |-> "iadd", given |-> other.items], iadd(keys_to_press, other))

\* the caller takes what the operation gave
KeysReturn ==
    /\ keys_call # NoCall
    /\ keys_call' = NoCall
    /\ keys_result' = NoResult
    /\ keys_before' = <<>>
    /\ UNCHANGED <<ocr_vars, earlier, all_vars, wait_vars, cache_vars, child_vars,
                   location_vars, hold_vars, live_vars, keys_to_press>>

NextKeys ==
    \/ KeysConstruct
    \/ KeysAppend
    \/ KeysExtend
    \/ KeysSetItem
    \/ KeysInsert
    \/ KeysAdd
    \/ KeysIAdd
    \/ KeysReturn

SpecKeys == Init /\ [][NextKeys]_vars

IsKey(item) == item.type = "str" \/ item.type = "SpecialKey"

GivenInvalid == \E i \in 1..Len(keys_call.given) : ~IsKey(keys_call.given[i])

GivenValid == \E i \in 1..Len(keys_call.given) : IsKey(keys_call.given[i])

\* C23: after any sequence of construction, append, extend, insert, item
\* assignment, + and +=, every element of a KeysToPress (the list itself and
\* the list a + gave) is a str or a SpecialKey; an operation given an invalid
\* item raises TypeError and leaves the list as it was before the call, so a
\* mix of valid and invalid items adds none of them.
C23_KeysValidAtomic ==
    /\ \A i \in 1..Len(keys_to_press) : IsKey(keys_to_press[i])
    /\ keys_result.kind = "KeysToPress" =>
          \A i \in 1..Len(keys_result.items) : IsKey(keys_result.items[i])
    /\ (keys_call # NoCall /\ GivenInvalid) =>
          /\ keys_result = Raised("TypeError")
          /\ keys_to_press = keys_before

\* an extend of a list that holds keys, with a mix of valid and invalid items
C23_Witness ==
    /\ keys_call # NoCall
    /\ keys_call.op = "extend"
    /\ GivenInvalid
    /\ GivenValid
    /\ ~IsKey(keys_call.given[Len(keys_call.given)])
    /\ keys_before # <<>>
    /\ keys_result = Raised("TypeError")

-----------------------------------------------------------------------------
\* The hold contexts (interaction.py): KeysToPress.hold, SpecialKey.hold and
\* Mouse.button_hold are generator context managers

MaxHeld == 2          \* the longest KeysToPress list that is held

\* a str item is known by its characters
Str(chars) == [type |-> "str", chars |-> chars]

\* lines 33-36
SpecialKey == {"alt", "capslock", "escape"}

Special(value) == [type |-> "SpecialKey", value |-> value]

\* lines 27-30
MouseButton == {"right", "left", "center"}

HeldItems == {Str(<<"a">>), Str(<<"a", "b">>), Str(<<"e", "e">>), Special("alt")}

\* Mouse.button_string_to_enum, line 279: MouseButton[button.upper()].value
button_string_to_enum(button) ==
    IF button = "Left" THEN "left" ELSE IF button = "RIGHT" THEN "right" ELSE button

HoldContexts ==
    {[kind |-> "KeysToPress", items |-> xs] : xs \in SeqsUpTo(HeldItems, MaxHeld)}
        \cup {[kind |-> "SpecialKey", items |-> <<Special(v)>>] : v \in SpecialKey}
        \cup {[kind |-> "Mouse", items |-> <<Str(<<b>>)>>] : b \in MouseButton \cup {"Left", "RIGHT"}}

\* lines 177-183 and 198-204: the set of keys of a KeysToPress
unique_keys(items) ==
    UNION {IF items[i].type = "str"
           THEN {items[i].chars[j] : j \in 1..Len(items[i].chars)}
           ELSE {items[i].value} : i \in 1..Len(items)}

\* the keys or the button a context presses and releases
KeysOf(context) ==
    IF context.kind = "KeysToPress" THEN unique_keys(context.items)
    ELSE IF context.kind = "SpecialKey" THEN {context.items[1].value}
    ELSE {button_string_to_enum(context.items[1].chars[1])}

\* the orders in which a set can be iterated
Orders(S) ==
    {f \in [1..Cardinality(S) -> S] : \A i, j \in 1..Cardinality(S) : f[i] = f[j] => i = j}

Down(context) == IF context.kind = "Mouse" THEN "mouseDown" ELSE "keyDown"

Up(context) == IF context.kind = "Mouse" THEN "mouseUp" ELSE "keyUp"

Calls(fn, order) == [i \in 1..Len(order) |-> [fn |-> fn, key |-> order[i]]]

\* with ...hold(): the generator runs press() up to its yield
HoldEnter ==
    /\ hold_pc = "out"
    /\ held = NoCall
    /\ \E context \in HoldContexts : \E order \in Orders(KeysOf(context)) :
          /\ held' = context
          /\ key_events' = Calls(Down(context), order)
    /\ hold_pc' = "body"
    /\ UNCHANGED <<ocr_vars, earlier, all_vars, wait_vars, cache_vars, child_vars,
                   location_vars, keys_vars, live_vars>>

\* the body ends normally: the generator is resumed after its yield and
\* runs release()
HoldBodyCompletes ==
    /\ hold_pc = "body"
    /\ \E order \in Orders(KeysOf(held)) :
          key_events' = key_events \o Calls(Up(held), order)
    /\ hold_pc' = "done"
    /\ UNCHANGED <<ocr_vars, earlier, all_vars, wait_vars, cache_vars, child_vars,
                   location_vars, keys_vars, live_vars, held>>

\* the body raises: the exception is thrown into the generator at its yield,
\* which is in no try block, so the generator ends there and the exception
\* goes on to the caller of the with statement
HoldBodyRaises ==
    /\ hold_pc = "body"
    /\ hold_pc' = "failed"
    /\ UNCHANGED <<ocr_vars, earlier, all_vars, wait_vars, cache_vars, child_vars,
                   location_vars, keys_vars, live_vars, held, key_events>>

\* the program goes on after the with statement
HoldLeave ==
    /\ hold_pc \in {"done", "failed"}
    /\ hold_pc' = "out"
    /\ held' = NoCall
    /\ key_events' = <<>>
    /\ UNCHANGED <<ocr_vars, earlier, all_vars, wait_vars, cache_vars, child_vars,
                   location_vars, keys_vars, live_vars>>

NextHold == HoldEnter \/ HoldBodyCompletes \/ HoldBodyRaises \/ HoldLeave

SpecHold == Init /\ [][NextHold]_vars

\* how often a key or button was pressed and released so far
Presses(k) ==
    Cardinality({i \in 1..Len(key_events) :
                    key_events[i] = [fn |-> Down(held), key |-> k]})

Releases(k) ==
    Cardinality({i \in 1..Len(key_events) :
                    key_events[i] = [fn |-> Up(held), key |-> k]})

\* while the body runs every key is down once and none was released
HeldInBody ==
    hold_pc = "body" =>
        \A k \in KeysOf(held) : Presses(k) = 1 /\ Releases(k) = 0

\* after a normal end of the body every key was pressed once and released once
ReleasedWhenDone ==
    hold_pc = "done" =>
        \A k \in KeysOf(held) : Presses(k) = 1 /\ Releases(k) = 1

\* C24: in a hold context every key or button is pressed exactly once on
\* entering, none is released while the body runs, and on every exit, normal
\* or by an exception of the body, each is released exactly once: no key stays
\* down after the context ends.
C24_HoldReleases ==
    /\ HeldInBody
    /\ hold_pc \in {"done", "failed"} =>
          \A k \in KeysOf(held) : Presses(k) = 1 /\ Releases(k) = 1

-----------------------------------------------------------------------------
\* Text queries on live images (image.py): a Screen, whose pixels are a new
\* screenshot at every _get_numpy_image call, and a RegionInImage of the Screen

MaxFrames == 2        \* how often the picture on the screen changes

\* Screen._get_numpy_image, lines 1053-1057: the screenshot taken at the call
ScreenGetNumpyImage == screen_frame

\* RegionInImage._get_numpy_image, lines 659-664: a slice of the parent's pixels
RegionGetNumpyImage == ScreenGetNumpyImage

\* _create_ocr_matcher, lines 130-133: the OCR run on the pixels handed over
create_ocr_matcher(numpy_image) == [captured |-> numpy_image]

\* what the query was answered from, and the picture on the screen at the query
Answered(obj, key, matcher) ==
    live_answer' = [obj |-> obj, key |-> key, captured |-> matcher.captured,
                    frame |-> screen_frame]

\* the picture on the screen changes between two calls
ScreenChanges ==
    /\ screen_frame < MaxFrames
    /\ screen_frame' = screen_frame + 1
    /\ UNCHANGED <<ocr_vars, earlier, all_vars, wait_vars, cache_vars, child_vars,
                   location_vars, keys_vars, hold_vars, live_matchers, live_answer>>

\* get_text / find_text_all on the Screen (lines 155, 219): Screen._get_ocr_matcher,
\* lines 1050-1051, creates a matcher at every call
ScreenTextQuery ==
    /\ \E language \in Languages : \E line_break \in LineBreakArgs :
       \E paragraph_break \in ParagraphBreakArgs :
          Answered("screen", MatcherKey(language, line_break, paragraph_break),
                   create_ocr_matcher(ScreenGetNumpyImage))
    /\ UNCHANGED <<ocr_vars, earlier, all_vars, wait_vars, cache_vars, child_vars,
                   location_vars, keys_vars, hold_vars, screen_frame, live_matchers>>

\* get_text / find_text_all on a RegionInImage of the Screen (lines 155, 219):
\* RegionInImage has no _get_ocr_matcher of its own, so BaseImage's runs,
\* lines 135-142
RegionTextQuery ==
    /\ \E language \in Languages : \E line_break \in LineBreakArgs :
       \E paragraph_break \in ParagraphBreakArgs :
          LET key == MatcherKey(language, line_break, paragraph_break)
              matcher == DictGet(live_matchers, key)
          IN IF matcher = None
             THEN /\ live_matchers' =
                        Append(live_matchers,
                               [key |-> key,
                                matcher |-> create_ocr_matcher(RegionGetNumpyImage)])
                  /\ Answered("region_in_screen", key,
                              create_ocr_matcher(RegionGetNumpyImage))
             ELSE /\ Answered("region_in_screen", key,
                              live_matchers[matcher[1]].matcher)
                  /\ UNCHANGED live_matchers
    /\ UNCHANGED <<ocr_vars, earlier, all_vars, wait_vars, cache_vars, child_vars,
                   location_vars, keys_vars, hold_vars, screen_frame>>

NextLive == ScreenChanges \/ ScreenTextQuery \/ RegionTextQuery

SpecLive == Init /\ [][NextLive]_vars

\* C28: a text query on a live image, a Screen or a RegionInImage whose root is
\* a Screen, is answered from an OCR run on the pixels captured at query time,
\* never from a matcher cached during an earlier query with the same
\* (language, line_break, paragraph_break).
C28_FreshContent ==
    live_answer # NoCall => live_answer.captured = live_answer.frame

-----------------------------------------------------------------------------
\* The regions next to a RegionInImage (image.py): region_left, region_above,
\* region_right and region_below

MaxRootSide == 3      \* the largest width or height of a root image

RootSides == 1..MaxRootSide

RootImages == {[width |-> w, height |-> h] : w \in RootSides, h \in RootSides}

IsRegionInImage(image) == "region" \in DOMAIN image

Min(a, b) == IF a <= b THEN a ELSE b

Max(a, b) == IF a >= b THEN a ELSE b

\* the length of array[lo:hi] along an axis of length n, for lo, hi >= 0
SliceLen(lo, hi, n) == Max(0, Min(hi, n) - Min(lo, n))

\* BaseImage.width, lines 66-71, over RegionInImage._get_numpy_image, lines 659-664
RECURSIVE width(_)
width(image) ==
    IF IsRegionInImage(image)
    THEN SliceLen(left(image.region), right(image.region), width(image.parent_image))
    ELSE image.width

\* BaseImage.height, lines 73-78
RECURSIVE height(_)
height(image) ==
    IF IsRegionInImage(image)
    THEN SliceLen(top(image.region), bottom(image.region), height(image.parent_image))
    ELSE image.height

\* lines 631-639
RECURSIVE root_image(_)
root_image(self) ==
    IF IsRegionInImage(self.parent_image) THEN root_image(self.parent_image)
    ELSE self.parent_image

\* lines 641-657
RECURSIVE absolute_region(_)
absolute_region(self) ==
    IF IsRegionInImage(self.parent_image)
    THEN LET parent_absolute_region == absolute_region(self.parent_image)
         IN Region(parent_absolute_region.x + self.region.x,
                   parent_absolute_region.y + self.region.y,
                   self.region.width, self.region.height)
    ELSE self.region

\* the regions get_child_region accepts on an image of this width and height
Accepted(w, h) ==
    {Region(x, y, rw, rh) : x \in 0..w, y \in 0..h, rw \in 0..w, rh \in 0..h}
        \cap {r \in [x : 0..w, y : 0..h, width : 0..w, height : 0..h] :
                 right(r) < w /\ bottom(r) < h}

\* the RegionInImage objects get_child_region gives: children of a root image
\* and children of those
Children ==
    {RegionInImage(root, r) : root \in RootImages, r \in Accepted(MaxRootSide, MaxRootSide)}
        \cap {c \in [kind : {"RegionInImage"}, parent_image : RootImages,
                     region : Accepted(MaxRootSide, MaxRootSide)] :
                 c.region \in Accepted(c.parent_image.width, c.parent_image.height)}

GrandChildren ==
    UNION {{RegionInImage(c, r) : r \in Accepted(c.region.width, c.region.height)} :
              c \in Children}

Sizes == {None} \cup {Some(n) : n \in 0..MaxRootSide}

\* lines 667-692
raw_region_left(self, size, absolute) ==
    LET region == IF absolute THEN absolute_region(self) ELSE self.region
        left_edge == IF size = None THEN 0 ELSE Max(region.x - size[1], 0)
    IN Region(left_edge, region.y, region.x - left_edge, region.height)

\* lines 712-737
raw_region_above(self, size, absolute) ==
    LET region == IF absolute THEN absolute_region(self) ELSE self.region
        top_edge == IF size = None THEN 0 ELSE Max(region.y - size[1], 0)
    IN Region(region.x, top_edge, region.width, region.y - top_edge)

\* lines 757-783
raw_region_right(self, size, absolute) ==
    LET region == IF absolute THEN absolute_region(self) ELSE self.region
        left_edge == right(region) + 1
        total_width == IF absolute THEN width(root_image(self))
                       ELSE width(self.parent_image)
    IN Region(left_edge, region.y,
              IF size = None THEN total_width - left_edge ELSE size[1],
              region.height)

\* lines 803-829
raw_region_below(self, size, absolute) ==
    LET region == IF absolute THEN absolute_region(self) ELSE self.region
        top_edge == bottom(region) + 1
        total_height == IF absolute THEN height(root_image(self))
                        ELSE height(self.parent_image)
    IN Region(region.x, top_edge, region.width,
              IF size = None THEN total_height - top_edge ELSE size[1])

\* the image the new region is attached to, lines 710, 755, 801, 847
Attached(self, absolute) == IF ~absolute THEN self.parent_image ELSE root_image(self)

\* a region_* call acted
RegionDid(op, self, size, absolute, region) ==
    /\ child_call' = [op |-> op, self |-> self, size |-> size, absolute |-> absolute]
    /\ child_result' = RegionInImage(Attached(self, absolute), region)
    /\ UNCHANGED <<ocr_vars, earlier, all_vars, rest_vars, wait_vars, cache_vars>>

\* lines 694-710
RegionLeft ==
    /\ child_call = NoCall
    /\ \E self \in Children \cup GrandChildren : \E size \in Sizes :
       \E absolute \in BOOLEAN :
          RegionDid("region_left", self, size, absolute,
                    raw_region_left(self, size, absolute))

\* lines 739-755
RegionAbove ==
    /\ child_call = NoCall
    /\ \E self \in Children \cup GrandChildren : \E size \in Sizes :
       \E absolute \in BOOLEAN :
          RegionDid("region_above", self, size, absolute,
                    raw_region_above(self, size, absolute))

\* lines 785-801
RegionRight ==
    /\ child_call = NoCall
    /\ \E self \in Children \cup GrandChildren : \E size \in Sizes :
       \E absolute \in BOOLEAN :
          RegionDid("region_right", self, size, absolute,
                    raw_region_right(self, size, absolute))

\* lines 831-847
RegionBelow ==
    /\ child_call = NoCall
    /\ \E self \in Children \cup GrandChildren : \E size \in Sizes :
       \E absolute \in BOOLEAN :
          RegionDid("region_below", self, size, absolute,
                    raw_region_below(self, size, absolute))

NextRegions ==
    \/ GetChildRegion
    \/ RegionLeft
    \/ RegionAbove
    \/ RegionRight
    \/ RegionBelow
    \/ ChildReturn

SpecRegions == Init /\ [][NextRegions]_vars

\* C30: every RegionInImage that get_child_region, region_left, region_above,
\* region_right or region_below produces, for every size >= 0 or None and both
\* absolute settings, has a region within the bounds of the image it is
\* attached to (0 <= left, 0 <= top, right <= width, bottom <= height), so
\* that slicing its pixels gives exactly region.width x region.height.
C30_RegionsInsideImage ==
    (child_call # NoCall /\ child_result.kind = "RegionInImage") =>
        /\ 0 <= left(child_result.region)
        /\ 0 <= top(child_result.region)
        /\ right(child_result.region) <= width(child_result.parent_image)
        /\ bottom(child_result.region) <= height(child_result.parent_image)
        /\ width(child_result) = child_result.region.width
        /\ height(child_result) = child_result.region.height

====
